---- MODULE Spec2Model ----
(***************************************************************************)
(* Force-directed layout engine (Fruchterman-Reingold) with a pluggable    *)
(* repulsive strategy (BruteForce, BarnesHut over a point-region QuadTree). *)
(*                                                                         *)
(* Numbers.  The program computes in 32-bit floats.  The model computes on *)
(* a uniform grid whose quantum is 1e-6: the integer n stands for the      *)
(* float n * 1e-6, so the source constants read 1e-6 -> 1, 1e-4 -> 100,    *)
(* 1e-3 -> 1000 and 1.0 -> 1000000.  A product or quotient is rounded      *)
(* toward zero once per source statement; the sum of a cell centre and a   *)
(* half extent is rounded to the nearest grid point, ties to even, as an   *)
(* IEEE addition is.  Half extents stay exact under halving, as a float's  *)
(* do: a half extent is the pair (numerator, number of halvings).          *)
(***************************************************************************)
EXTENDS Integers, Sequences, FiniteSets, TLC

\* ------------------------------------------------------------------------
\* Arithmetic
\* ------------------------------------------------------------------------

\* Grid points per 1.0f.
Unit == 1000000

Abs(x) == IF x < 0 THEN -x ELSE x

Sgn(x) == IF x < 0 THEN -1 ELSE IF x > 0 THEN 1 ELSE 0

Min(a, b) == IF b < a THEN b ELSE a

Max(a, b) == IF a < b THEN b ELSE a

RECURSIVE Pow2(_)
Pow2(e) ==
    IF e <= 0 THEN 1
    ELSE IF e % 2 = 1 THEN 2 * Pow2(e - 1)
    ELSE LET h == Pow2(e \div 2) IN h * h

\* One step of MulDivQR: from h = <<q, r>> for b \div 4 to b.
QRStep(h, a, b, c) ==
    << 4 * h[1] + (4 * h[2] + a * (b % 4)) \div c,
       (4 * h[2] + a * (b % 4)) % c >>

\* <<q, r>> with a * b = q * c + r and 0 <= r < c, for 0 <= a < 2^28, b >= 0
\* and 0 < c < 2^28, without forming a * b (which may exceed 32 bits).
RECURSIVE MulDivQR(_, _, _)
MulDivQR(a, b, c) ==
    IF b = 0 THEN <<0, 0>>
    ELSE LET h == MulDivQR(a, b \div 4, c) IN QRStep(h, a, b, c)

\* a * b / c for a, b >= 0 and c > 0, rounded down.
MulDivNat(a, b, c) ==
    IF a = 0 \/ b = 0 THEN 0
    ELSE IF a <= 2147483647 \div b THEN (a * b) \div c
    ELSE MulDivQR(a, b, c)[1]

\* a * b / c rounded toward zero (c # 0).
MulDiv(a, b, c) == Sgn(a) * Sgn(b) * Sgn(c) * MulDivNat(Abs(a), Abs(b), Abs(c))

\* Largest r in lo..hi with r * r <= n.
RECURSIVE SqrtSearch(_, _, _)
SqrtSearch(n, lo, hi) ==
    IF lo >= hi THEN lo
    ELSE IF ((lo + hi + 1) \div 2) * ((lo + hi + 1) \div 2) <= n
    THEN SqrtSearch(n, (lo + hi + 1) \div 2, hi)
    ELSE SqrtSearch(n, lo, (lo + hi + 1) \div 2 - 1)

\* std::sqrt on the grid, rounded down.
ISqrt(n) == SqrtSearch(n, 0, Min(n, 46340))

\* Smallest power of two s with m \div s <= 16383.
RECURSIVE ScaleFor(_, _)
ScaleFor(m, s) == IF m \div s <= 16383 THEN s ELSE ScaleFor(m, 2 * s)

\* sqrt(ax^2 + ay^2) for ax, ay >= 0, computed on components divided by s.
ScaledLength(ax, ay, s) ==
    s * ISqrt((ax \div s) * (ax \div s) + (ay \div s) * (ay \div s))

\* glm::length(v): sqrt(x*x + y*y).  Components too large to square are
\* scaled down first, which keeps 14 significant bits of the result.
Length(v) ==
    LET s == ScaleFor(Max(Abs(v[1]), Abs(v[2])), 1)
    IN  ScaledLength(Abs(v[1]), Abs(v[2]), s)

VAdd(a, b) == <<a[1] + b[1], a[2] + b[2]>>

VSub(a, b) == <<a[1] - b[1], a[2] - b[2]>>

\* (v * b) / c, each component rounded toward zero.
VMulDiv(v, b, c) == <<MulDiv(v[1], b, c), MulDiv(v[2], b, c)>>

\* num / d rounded to the nearest integer; a tie goes to the neighbour that
\* makes base + sign * result even (IEEE round-half-to-even of the sum).
RoundQuotient(base, sign, num, d) ==
    IF 2 * (num % d) < d THEN num \div d
    ELSE IF 2 * (num % d) > d THEN num \div d + 1
    ELSE IF (base + sign * (num \div d)) % 2 = 0 THEN num \div d
    ELSE num \div d + 1

\* num / 2^e rounded as above; beyond 30 halvings the quotient is zero.
RoundHalving(base, sign, num, e) ==
    IF e > 30 THEN 0
    ELSE LET d == Pow2(e) IN RoundQuotient(base, sign, num, d)

\* base + num / 2^e and base - num / 2^e, rounded to the grid.
AddHalving(base, num, e) == base + RoundHalving(base, 1, num, e)

SubHalving(base, num, e) == base - RoundHalving(base, -1, num, e)

\* ------------------------------------------------------------------------
\* BoundingBox
\* ------------------------------------------------------------------------

\* A box is [center, halfW, halfH, halvings]: its half extents are
\* halfW / 2^halvings and halfH / 2^halvings.
BoundingBox(c, hw, hh, e) ==
    [center |-> c, halfW |-> hw, halfH |-> hh, halvings |-> e]

\* x lies in the closed interval c -+ h / 2^e.
Within(x, c, h, e) == x >= SubHalving(c, h, e) /\ x <= AddHalving(c, h, e)

\* BoundingBox::contains: closed intervals on both axes.
Contains(b, p) ==
    /\ Within(p[1], b.center[1], b.halfW, b.halvings)
    /\ Within(p[2], b.center[2], b.halfH, b.halvings)

\* The four quadrants with centre coordinates xm < xp and ym < yp, in the
\* order NE, NW, SW, SE.
Quadrants(b, xp, xm, yp, ym) ==
    << BoundingBox(<<xp, yp>>, b.halfW, b.halfH, b.halvings + 1),
       BoundingBox(<<xm, yp>>, b.halfW, b.halfH, b.halvings + 1),
       BoundingBox(<<xm, ym>>, b.halfW, b.halfH, b.halvings + 1),
       BoundingBox(<<xp, ym>>, b.halfW, b.halfH, b.halvings + 1) >>

\* BoundingBox::subdivide.
Subdivide(b) ==
    LET xp == AddHalving(b.center[1], b.halfW, b.halvings + 1)
        xm == SubHalving(b.center[1], b.halfW, b.halvings + 1)
        yp == AddHalving(b.center[2], b.halfH, b.halvings + 1)
        ym == SubHalving(b.center[2], b.halfH, b.halvings + 1)
    IN  Quadrants(b, xp, xm, yp, ym)

\* BoundingBox::size: 2 * max(halfW, halfH), on the grid.
Size(b) == RoundHalving(0, 1, 2 * Max(b.halfW, b.halfH), b.halvings)

\* ------------------------------------------------------------------------
\* QuadTree
\* ------------------------------------------------------------------------

\* Maximum graph nodes in a leaf before it splits.
CAPACITY == 1

\* Nested insert calls the stack holds: a deeper recursion ends the process.
StackLimit == 40

\* The tree is the sequence of its cells, root first; a cell's children are
\* the indices of four cells (the source's four owning pointers), <<>> in a leaf.

\* QuadTree::QuadTree(bounds): an empty leaf.
NewQuadTree(b) ==
    [ bounds        |-> b,
      centerOfMass  |-> <<0, 0>>,
      totalMass     |-> 0,
      point         |-> <<0, 0>>,
      pointId       |-> 0,
      isSubdivided  |-> FALSE,
      children      |-> <<>> ]

\* QuadTree::isLeaf.
IsLeaf(c) == ~c.isSubdivided

\* Nesting depth of a cell of tree t (the root is at 0).
Depth(t, c) == c.bounds.halvings - t[1].bounds.halvings

\* An update that averages the old centre with the new point, whatever the
\* mass.
OnlineMeanUnweighted(com, mass, pos) ==
    << (com[1] + pos[1]) \div 2, (com[2] + pos[2]) \div 2 >>

\* The online mean of QuadTree::insert.
OnlineMean(com, mass, pos) ==
    << MulDiv(com[1] * mass + pos[1], 1, mass + 1),
       MulDiv(com[2] * mass + pos[2], 1, mass + 1) >>

\* The aggregate update at the head of QuadTree::insert.
Aggregate(c, pos) ==
    [c EXCEPT !.centerOfMass = OnlineMean(c.centerOfMass, c.totalMass, pos),
              !.totalMass = c.totalMass + 1]

\* The least element of a set of indices, 0 for the empty set.
FirstOf(S) == IF S = {} THEN 0 ELSE CHOOSE i \in S : \A j \in S : i <= j

\* QuadTree::insertIntoChildren tries the children in order and stops at the
\* first whose insert returns true, which is the first whose bounds contain
\* the point; 0 when none does.
FirstContaining(boxes, p) ==
    LET S == {i \in 1..4 : Contains(boxes[i], p)} IN FirstOf(S)

ChildBoxes(t, c) == [i \in 1..4 |-> t[c.children[i]].bounds]

\* One call of insert(pos) further down: x.path holds the cells the call has
\* run on, the last being the cell it is in; a leaf, or a cell none of whose
\* children contains pos, ends the descent.
VisitChild(t, x, i, n) ==
    IF n = 0 THEN [x EXCEPT !.done = TRUE]
    ELSE [x EXCEPT !.path = Append(x.path, t[i].children[n])]

VisitStep(t, pos, x, i) ==
    IF IsLeaf(t[i]) THEN [x EXCEPT !.done = TRUE]
    ELSE LET n == FirstContaining(ChildBoxes(t, t[i]), pos)
         IN  VisitChild(t, x, i, n)

\* n such calls, or fewer when the descent ends.
RECURSIVE VisitSteps(_, _, _, _)
VisitSteps(t, pos, x, n) ==
    IF n = 0 \/ x.done THEN x
    ELSE IF n = 1 THEN VisitStep(t, pos, x, x.path[Len(x.path)])
    ELSE LET h == VisitSteps(t, pos, x, n \div 2)
         IN  VisitSteps(t, pos, h, n - n \div 2)

\* The cells of t on which insert(pos) runs past its bounds check, starting
\* at cell i (whose bounds contain pos).
Visits(t, i, pos) ==
    VisitSteps(t, pos, [path |-> <<i>>, done |-> FALSE], Len(t)).path

\* An occupied leaf with bounds b at depth d holds q and receives p: it
\* subdivides, q goes to the first new child that contains it (iq) and p to
\* the first that contains p (ip); when that is the same child, it subdivides
\* in turn.  One record per subdivision; x.box is the cell that subdivides
\* next, at depth x.d.
SplitLevel(quads, iq, ip, d) ==
    [quads |-> quads, iq |-> iq, ip |-> ip, overflow |-> d + 1 > StackLimit]

SplitRouted(x, quads, iq, ip) ==
    [ chain |-> Append(x.chain, SplitLevel(quads, iq, ip, x.d)),
      box   |-> IF ip = 0 THEN x.box ELSE quads[ip],
      d     |-> x.d + 1,
      done  |-> x.d + 1 > StackLimit \/ ip = 0 \/ ip # iq ]

SplitQuads(x, quads, q, p) ==
    LET iq == FirstContaining(quads, q)
        ip == FirstContaining(quads, p)
    IN  SplitRouted(x, quads, iq, ip)

SplitStep(x, q, p) == LET quads == Subdivide(x.box) IN SplitQuads(x, quads, q, p)

\* n subdivisions, or fewer when the chain ends.
RECURSIVE SplitSteps(_, _, _, _)
SplitSteps(x, q, p, n) ==
    IF n = 0 \/ x.done THEN x
    ELSE IF n = 1 THEN SplitStep(x, q, p)
    ELSE LET h == SplitSteps(x, q, p, n \div 2)
         IN  SplitSteps(h, q, p, n - n \div 2)

SplitChain(b, q, p, d) ==
    SplitSteps([chain |-> <<>>, box |-> b, d |-> d, done |-> FALSE],
               q, p, StackLimit + 1).chain

\* An insert on a leaf with room that aggregates and stores nothing.
StoredNowhere(c, p, id) == Aggregate(c, p)

\* insert on a leaf with room: aggregate, then store the point.
Stored(c, p, id) == [Aggregate(c, p) EXCEPT !.point = p, !.pointId = id]

\* The cell that subdivision j of a chain creates as child i; the new cells
\* follow the `base` cells the tree already has.
ChainCell(chain, base, j, i, q, qid, p, id) ==
    IF j < Len(chain) /\ i = chain[j].ip
    THEN [Aggregate(Stored(NewQuadTree(chain[j].quads[i]), q, qid), p) EXCEPT
            !.isSubdivided = TRUE,
            !.children = [n \in 1..4 |-> base + 4 * j + n]]
    ELSE IF j = Len(chain) /\ i = chain[j].iq
    THEN Stored(NewQuadTree(chain[j].quads[i]), q, qid)
    ELSE IF j = Len(chain) /\ i = chain[j].ip
    THEN Stored(NewQuadTree(chain[j].quads[i]), p, id)
    ELSE NewQuadTree(chain[j].quads[i])

\* The aggregate update on the last visited cell only.
AggregateAtLast(t, visits, pos) ==
    [i \in 1..Len(t) |->
       IF visits[Len(visits)] = i THEN Aggregate(t[i], pos) ELSE t[i]]

\* The aggregate update on every visited cell.
AggregateAlong(t, visits, pos) ==
    [i \in 1..Len(t) |->
       IF \E n \in 1..Len(visits) : visits[n] = i
       THEN Aggregate(t[i], pos) ELSE t[i]]

\* The occupied leaf `last` subdivides along chain; t1 is t after the
\* aggregate updates.
SplitAt(t, pos, id, last, t1, chain) ==
    IF chain[Len(chain)].overflow
    THEN [tree |-> t, ok |-> FALSE, overflow |-> TRUE]
    ELSE [tree |->
            [i \in 1..Len(t) |->
               IF i = last
               THEN [t1[i] EXCEPT !.isSubdivided = TRUE,
                                  !.children = [n \in 1..4 |-> Len(t) + n]]
               ELSE t1[i]]
            \o [x \in 1..(4 * Len(chain)) |->
                  ChainCell(chain, Len(t), ((x - 1) \div 4) + 1,
                            ((x - 1) % 4) + 1, t[last].point, t[last].pointId,
                            pos, id)],
          ok |-> TRUE, overflow |-> FALSE]

\* The call reaches cell `last` and goes no deeper through existing cells.
InsertAt(t, pos, id, last, t1) ==
    IF IsLeaf(t[last]) /\ t[last].totalMass + 1 <= CAPACITY
    THEN [tree |-> [i \in 1..Len(t) |->
                      IF i = last
                      THEN [t1[i] EXCEPT !.point = pos, !.pointId = id]
                      ELSE t1[i]],
          ok |-> TRUE, overflow |-> FALSE]
    ELSE IF ~IsLeaf(t[last])
    THEN [tree |-> t1, ok |-> TRUE, overflow |-> FALSE]
    ELSE LET chain == SplitChain(t[last].bounds, t[last].point, pos,
                                 Depth(t, t[last]))
         IN  SplitAt(t, pos, id, last, t1, chain)

InsertAlong(t, pos, id, visits) ==
    LET t1 == AggregateAlong(t, visits, pos)
    IN  InsertAt(t, pos, id, visits[Len(visits)], t1)

\* An insert without the bounds check at its head.
InsertUnchecked(t, pos, id) ==
    LET visits == Visits(t, 1, pos) IN InsertAlong(t, pos, id, visits)

\* QuadTree::insert(pos, nodeId) on the root: [tree, ok, overflow].  A point
\* outside the bounds is refused; an insert that exhausts the stack leaves
\* overflow set.
Insert(t, pos, id) ==
    IF ~Contains(t[1].bounds, pos)
    THEN [tree |-> t, ok |-> FALSE, overflow |-> FALSE]
    ELSE LET visits == Visits(t, 1, pos) IN InsertAlong(t, pos, id, visits)

\* ------------------------------------------------------------------------
\* Repulsive strategies
\* ------------------------------------------------------------------------

\* 1e-4f, the distance below which two points count as coincident.
Eps == 100

\* The margin of BarnesHutRepulsion::computeBounds, 1.0f.
Margin == 1000000

\* Sum of f[i] over i in lo..hi, for vector-valued f.
RECURSIVE VSum(_, _, _)
VSum(f, lo, hi) ==
    IF lo > hi THEN <<0, 0>>
    ELSE IF lo = hi THEN f[lo]
    ELSE LET mid == (lo + hi) \div 2
         IN  VAdd(VSum(f, lo, mid), VSum(f, mid + 1, hi))

\* The guard against coincident positions: below Eps the distance becomes
\* Eps and the direction (Eps, 0).
EpsilonGuard(delta0, dist0) ==
    IF dist0 < Eps THEN [dist |-> Eps, delta |-> <<Eps, 0>>]
    ELSE [dist |-> dist0, delta |-> delta0]

\* (k2 / (dist * dist)) * delta.
PairwiseForce(g, k) == VMulDiv(g.delta, k * k, g.dist * g.dist)

\* The force of one pair in BruteForceRepulsion::computeRepulsive.
PairForce(pi, pj, k) ==
    LET g == EpsilonGuard(VSub(pi, pj), Length(VSub(pi, pj)))
    IN  PairwiseForce(g, k)

VNeg(a) == <<-a[1], -a[2]>>

\* BruteForceRepulsion::computeRepulsive: every pair i < j adds its force to
\* node i and subtracts it from node j.
BruteForceRepulsive(nodes, k) ==
    [i \in 1..Len(nodes) |->
       [nodes[i] EXCEPT
          !.displacement =
             VAdd(nodes[i].displacement,
                  VSum([j \in 1..Len(nodes) |->
                          IF i < j
                          THEN PairForce(nodes[i].position, nodes[j].position, k)
                          ELSE IF j < i
                          THEN VNeg(PairForce(nodes[j].position,
                                              nodes[i].position, k))
                          ELSE <<0, 0>>], 1, Len(nodes)))]]

RECURSIVE MinOver(_, _)
MinOver(f, n) == IF n = 1 THEN f[1] ELSE Min(f[n], MinOver(f, n - 1))

RECURSIVE MaxOver(_, _)
MaxOver(f, n) == IF n = 1 THEN f[1] ELSE Max(f[n], MaxOver(f, n - 1))

\* BarnesHutRepulsion::computeBounds: the tight box of the positions, widened
\* by the margin on every side.
ComputeBounds(nodes) ==
    LET n    == Len(nodes)
        xs   == [i \in 1..n |-> nodes[i].position[1]]
        ys   == [i \in 1..n |-> nodes[i].position[2]]
        minX == MinOver(xs, n)
        maxX == MaxOver(xs, n)
        minY == MinOver(ys, n)
        maxY == MaxOver(ys, n)
    IN  BoundingBox(<<RoundHalving(0, 1, minX + maxX, 1),
                      RoundHalving(0, 1, minY + maxY, 1)>>,
                    (maxX - minX) + 2 * Margin,
                    (maxY - minY) + 2 * Margin, 1)

\* The tree after the insert loop of BarnesHutRepulsion::computeRepulsive has
\* run over nodes[i..]; the loop ignores insert's return value.
RECURSIVE BuildTree(_, _, _)
BuildTree(r, nodes, i) ==
    IF i > Len(nodes) \/ r.overflow THEN r
    ELSE BuildTree(Insert(r.tree, nodes[i].position, nodes[i].id), nodes, i + 1)

\* forceFromTree's view of cell c from pos: distance and direction to the
\* centre of mass after the epsilon guard.
Guarded(c, pos) ==
    LET dist0 == Length(VSub(pos, c.centerOfMass))
    IN  EpsilonGuard(VSub(pos, c.centerOfMass), dist0)

\* forceFromTree returns at cell c without visiting its children: the cell is
\* empty, a leaf, or far enough for the criterion s / d < theta (thn / 100).
Returns(c, pos, thn) ==
    \/ c.totalMass = 0
    \/ IsLeaf(c)
    \/ Size(c.bounds) * 100 < thn * Guarded(c, pos).dist

\* forceMag = mass * k2 / (dist * dist); the result (delta / dist) * forceMag.
AcceptedForce(g, mass, k) ==
    VMulDiv(g.delta, MulDiv(mass * k * k, Unit, g.dist * g.dist), g.dist)

\* The value forceFromTree computes at cell c itself (zero where it recurses).
CellForce(c, pos, selfId, k, thn) ==
    IF c.totalMass = 0 THEN <<0, 0>>
    ELSE IF IsLeaf(c) /\ c.totalMass = 1 /\ c.pointId = selfId THEN <<0, 0>>
    ELSE IF Returns(c, pos, thn)
    THEN LET g == Guarded(c, pos) IN AcceptedForce(g, c.totalMass, k)
    ELSE <<0, 0>>

\* The cells forceFromTree is called on one level further down: x.front
\* holds the deepest cells it is called on, x.all every cell so far; it
\* recurses into the children of the cells of x.front at which it does not return.
CalledStep(t, pos, thn, x) ==
    LET below == UNION {{t[i].children[n] : n \in 1..4} :
                          i \in {j \in x.front : ~Returns(t[j], pos, thn)}}
    IN  [all |-> x.all \cup below, front |-> below]

RECURSIVE CalledSteps(_, _, _, _, _)
CalledSteps(t, pos, thn, x, n) ==
    IF n = 0 \/ x.front = {} THEN x
    ELSE IF n = 1 THEN CalledStep(t, pos, thn, x)
    ELSE LET h == CalledSteps(t, pos, thn, x, n \div 2)
         IN  CalledSteps(t, pos, thn, h, n - n \div 2)

\* The cells forceFromTree is called on, from the set S of cells down.
Called(t, S, pos, thn) ==
    CalledSteps(t, pos, thn, [all |-> S, front |-> S], Len(t)).all

\* BarnesHutRepulsion::forceFromTree on the root of t: the recursion's total
\* is the sum of what each call computes at its own cell.
ForceFromTree(t, pos, selfId, k, thn) ==
    LET called == Called(t, {1}, pos, thn)
    IN  VSum([i \in 1..Len(t) |->
                IF i \in called THEN CellForce(t[i], pos, selfId, k, thn)
                ELSE <<0, 0>>], 1, Len(t))

\* The force loop of BarnesHutRepulsion::computeRepulsive on the built tree:
\* when an insert exhausted the stack the process ended before it.
BarnesHutForces(nodes, k, thn, built) ==
    IF built.overflow THEN [nodes |-> nodes, overflow |-> TRUE]
    ELSE [nodes |-> [i \in 1..Len(nodes) |->
                       [nodes[i] EXCEPT
                          !.displacement =
                             VAdd(nodes[i].displacement,
                                  ForceFromTree(built.tree, nodes[i].position,
                                                nodes[i].id, k, thn))]],
          overflow |-> FALSE]

\* BarnesHutRepulsion::computeRepulsive: [nodes, overflow].
BarnesHutRepulsive(nodes, k, thn) ==
    IF Len(nodes) = 0 THEN [nodes |-> nodes, overflow |-> FALSE]
    ELSE LET built == BuildTree([tree |-> <<NewQuadTree(ComputeBounds(nodes))>>,
                                 ok |-> TRUE, overflow |-> FALSE], nodes, 1)
         IN  BarnesHutForces(nodes, k, thn, built)

\* ------------------------------------------------------------------------
\* Graph and LayoutEngine: parameters of the exploration
\* ------------------------------------------------------------------------

\* The frame handed to the LayoutEngine constructor (W_, H_), in grid points.
FrameW == 1600

FrameH == 1200

\* Largest vertex count Graph::erdosRenyi is called with.
MaxNodes == 2

\* Steps taken on one graph.
MaxSteps == 2

\* Steps taken in a run that is left to cool.
MaxCoolSteps == 16

\* Nodes of the graph in a run that is left to cool.
MaxCoolNodes == 3

\* Largest optimal distance for which every force fits the model's integers.
KMax == 2000

\* The constructor's C, the cooling rates and the Barnes-Hut thetas, each in
\* hundredths; the temperatures handed to setTemperature, which takes any
\* float, a negative one included; the seeds.
CValues == {4, 100}

CoolingRates == {50, 100}

Thetas == {0, 50}

Temperatures == {-500, 500, 2000}

Seeds == {1, 2}

\* An optional seed is the set of its values: std::nullopt is the empty set.
NoSeed == {}

OptionalSeeds == {NoSeed} \cup {{sd} : sd \in Seeds}

\* Positions a caller writes into Node::position through Graph::nodes(); the
\* last lies outside the frame.
Places == {<<0, 0>>, <<800, 600>>, <<801, 600>>, <<-3000, 600>>}

\* Insert calls made on the QuadTree under direct use.
MaxInserts == 3

\* Largest vertex id handed to Graph::addVertex and Graph::addEdge.
MaxId == 1

Ids == 0..MaxId

\* The edge probabilities handed to Graph::erdosRenyi, in hundredths.
PValues == {-50, 0, 50, 100, 150}

\* The positions inserted: the centre of the root, a corner, points on the
\* boundaries shared by two quadrants (east and south of the centre),
\* interior points (two of them one grid point apart), and a point outside
\* the root.
TreePoints == { <<0, 0>>, <<64, 64>>, <<32, 0>>, <<0, -32>>, <<16, 17>>,
                <<17, 17>>, <<-48, 32>>, <<80, 0>> }

\* ------------------------------------------------------------------------
\* Graph
\* ------------------------------------------------------------------------

\* Node::Node(id): position and displacement start at the origin.
Node(id) == [id |-> id, position |-> <<0, 0>>, displacement |-> <<0, 0>>]

\* The vertices Graph::erdosRenyi(n, ...) adds: ids 0 .. n-1 in order.
ErdosRenyiNodes(n) == [i \in 1..n |-> Node(i - 1)]

\* The edges it may add: one coin per pair i < j.
ErdosRenyiPairs(n) == {e \in (0..(n - 1)) \X (0..(n - 1)) : e[1] < e[2]}

\* Graph::nodeById: the index in nodes_ of the vertex with this id.
NodeById(ns, id) == CHOOSE i \in 1..Len(ns) : ns[i].id = id

\* An Edge is the pair <<source, target>> as constructed.

\* An Edge::canonical that returns the edge as it is.
CanonicalAsIs(e) == e

\* Edge::canonical: smaller id first.
Canonical(e) == IF e[1] <= e[2] THEN e ELSE <<e[2], e[1]>>

\* An Edge::operator== that compares the edges as constructed.
EdgeEqOriented(e, f) == e[1] = f[1] /\ e[2] = f[2]

\* Edge::operator==.
EdgeEq(e, f) ==
    Canonical(e)[1] = Canonical(f)[1] /\ Canonical(e)[2] = Canonical(f)[2]

\* Szudzik pairing of a and b; for 32-bit ids it stays below 2^64, the width
\* of std::size_t, so it never wraps.
Szudzik(a, b) == IF a >= b THEN a * a + a + b ELSE a + b * b

\* EdgeHash::operator().
EdgeHash(e) == Szudzik(Canonical(e)[1], Canonical(e)[2])

\* A Graph is [nodes, edges, index, adjacency]: nodes_, edges_, index_
\* (id -> position in nodes_, from 0) and adjacency_ (id -> neighbour ids).
EmptyGraph ==
    [ nodes     |-> <<>>,
      edges     |-> {},
      index     |-> [id \in {} |-> 0],
      adjacency |-> [id \in {} |-> <<>>] ]

\* A call's outcome: the graph afterwards and the exception thrown, if any.
Completes(g) == [graph |-> g, threw |-> "none"]

Throws(g, what) == [graph |-> g, threw |-> what]

\* A requireVertex that never throws.
RequireVertexPasses(ix, id) == FALSE

\* Graph::requireVertex throws.
RequireVertexThrows(ix, id) == id \notin DOMAIN ix

\* Graph::addVertex(id).
AddVertex(g, id) ==
    IF id \in DOMAIN g.index THEN Throws(g, "invalid_argument")
    ELSE Completes(
           [ nodes     |-> Append(g.nodes, Node(id)),
             edges     |-> g.edges,
             index     |-> [x \in DOMAIN g.index \cup {id} |->
                              IF x = id THEN Len(g.nodes) ELSE g.index[x]],
             adjacency |-> [x \in DOMAIN g.adjacency \cup {id} |->
                              IF x = id THEN <<>> ELSE g.adjacency[x]] ])

\* adjacency_[key].push_back(val); operator[] makes a missing entry.
PushBack(adj, key, val) ==
    [x \in DOMAIN adj \cup {key} |->
       IF x = key
       THEN Append(IF key \in DOMAIN adj THEN adj[key] ELSE <<>>, val)
       ELSE adj[x]]

\* edges_.insert(e) finds an equal element: same hash and operator==.
Present(es, e) == \E f \in es : EdgeHash(f) = EdgeHash(e) /\ EdgeEq(f, e)

\* Graph::addEdge(u, v).
AddEdge(g, u, v) ==
    IF RequireVertexThrows(g.index, u) \/ RequireVertexThrows(g.index, v)
    THEN Throws(g, "invalid_argument")
    ELSE IF Present(g.edges, <<u, v>>) THEN Completes(g)
    ELSE Completes([g EXCEPT
                     !.edges = g.edges \cup {<<u, v>>},
                     !.adjacency = PushBack(PushBack(g.adjacency, u, v), v, u)])

\* The domain check of Graph::erdosRenyi without its lower half.
DomainErrorAbove(p) == p > 100

\* The domain check of Graph::erdosRenyi; p is in hundredths.
DomainError(p) == p < 0 \/ p > 100

\* The vertex loop of Graph::erdosRenyi from id i on.
RECURSIVE AddVertices(_, _, _)
AddVertices(g, i, n) ==
    IF i >= n THEN g ELSE AddVertices(AddVertex(g, i).graph, i + 1, n)

\* The edge loop of Graph::erdosRenyi from pair number c on, pair <<i, j>>
\* having the number i * n + j; coins holds the pairs whose coin came up.
RECURSIVE AddCoins(_, _, _, _)
AddCoins(g, coins, c, n) ==
    IF c >= n * n THEN g
    ELSE IF <<c \div n, c % n>> \in coins
    THEN AddCoins(AddEdge(g, c \div n, c % n).graph, coins, c + 1, n)
    ELSE AddCoins(g, coins, c + 1, n)

\* The graph Graph::erdosRenyi builds for a p in [0, 1].
BuiltGraph(n, coins) == AddCoins(AddVertices(EmptyGraph, 0, n), coins, 0, n)

\* The outcomes of the coins for edge probability p.
Coins(n, p) ==
    IF p <= 0 THEN {{}}
    ELSE IF p >= 100 THEN {ErdosRenyiPairs(n)}
    ELSE SUBSET ErdosRenyiPairs(n)

\* Graph::erdosRenyi(n, p, seed) with these coins; g is the caller's graph,
\* which the result replaces.
ErdosRenyi(g, n, p, coins) ==
    IF DomainError(p) THEN Throws(g, "domain_error")
    ELSE Completes(BuiltGraph(n, coins))

\* ------------------------------------------------------------------------
\* LayoutEngine
\* ------------------------------------------------------------------------

\* 1e-6f, the displacement length at or below which a node is not moved.
DispEps == 1

\* T_min_, 1e-3f.
TMin == 1000

\* The defaults of k_, T_ and coolingRate_ (1.0f, 1.0f, 0.95f).
DefaultK == Unit

DefaultT == Unit

DefaultCoolingRate == 95

\* The j-th draw of the generator seeded with seed, in 0 .. 65535.
RECURSIVE Rng(_, _)
Rng(seed, j) ==
    IF j = 0 THEN (seed * 40503 + 12345) % 65536
    ELSE (25173 * Rng(seed, j - 1) + 13849) % 65536

\* uniform_real_distribution{0, hi} on draw j.
Uniform(seed, j, hi) == (Rng(seed, j) * hi) \div 65536

\* +infinity, which A / 0 gives for a positive area A.
Infinity == 2147483647

\* k_ = C_ * sqrt(A / |V|) of LayoutEngine::initialize; C is cnum / 100.
OptimalDistance(cnum, n) ==
    IF n = 0 THEN Infinity
    ELSE MulDiv(cnum, ISqrt((FrameW * FrameH) \div n), 100)

\* A generator seeded from std::random_device whatever seed is given.
SeedFromDevice(seed) == Seeds

\* seed.value_or(std::random_device{}()): the seeds the generator may get.
SeedUsed(seed) == IF seed = NoSeed THEN Seeds ELSE seed

\* The position loop of LayoutEngine::initialize: x then y for each node.
Scatter(ns, seed) ==
    [i \in 1..Len(ns) |->
       [ns[i] EXCEPT !.position = << Uniform(seed, 2 * i - 1, FrameW),
                                     Uniform(seed, 2 * i, FrameH) >>]]

\* Step 1 of LayoutEngine::step.
ResetDisplacements(ns) ==
    [i \in 1..Len(ns) |-> [ns[i] EXCEPT !.displacement = <<0, 0>>]]

\* A strategy that hands the nodes back in reverse order and writes no
\* displacement.
ComputeRepulsiveReordering(st, ns, k0) ==
    [nodes |-> [i \in 1..Len(ns) |-> ns[Len(ns) + 1 - i]], overflow |-> FALSE]

\* repulsiveStrategy_->computeRepulsive(nodes, k_): [nodes, overflow].
ComputeRepulsive(st, ns, k0) ==
    IF st.kind = "BruteForce"
    THEN [nodes |-> BruteForceRepulsive(ns, k0), overflow |-> FALSE]
    ELSE BarnesHutRepulsive(ns, k0, st.theta)

\* mag = dist * dist / k_ and force = (delta / dist) * mag, for an edge that
\* is not skipped.
EdgePull(delta, dist, k0) ==
    IF dist < Eps THEN <<0, 0>>
    ELSE VMulDiv(delta, MulDiv(dist, dist, k0), dist)

\* The force of one edge in step 3 of LayoutEngine::step (zero when the edge
\* is skipped).
EdgeForce(pu, pv, k0) ==
    LET dist == Length(VSub(pu, pv)) IN EdgePull(VSub(pu, pv), dist, k0)

\* The force of the edge <<u, v>> when the graph has it, else zero.
EdgeForceIn(es, u, v, k0) ==
    IF <<u.id, v.id>> \in es THEN EdgeForce(u.position, v.position, k0)
    ELSE <<0, 0>>

\* Every edge pulls its target by +force and leaves its source alone.
AttractTargetOnly(ns, es, k0) ==
    [i \in 1..Len(ns) |->
       [ns[i] EXCEPT
          !.displacement =
             VAdd(ns[i].displacement,
                  VSum([j \in 1..Len(ns) |->
                          EdgeForceIn(es, ns[j], ns[i], k0)],
                       1, Len(ns)))]]

\* Step 3 of LayoutEngine::step: every edge pulls its source by -force and
\* its target by +force.
Attract(ns, es, k0) ==
    [i \in 1..Len(ns) |->
       [ns[i] EXCEPT
          !.displacement =
             VAdd(ns[i].displacement,
                  VSum([j \in 1..Len(ns) |->
                          VSub(EdgeForceIn(es, ns[j], ns[i], k0),
                               EdgeForceIn(es, ns[i], ns[j], k0))],
                       1, Len(ns)))]]

\* std::clamp(x, lo, hi).
Clamp(x, lo, hi) == IF x < lo THEN lo ELSE IF hi < x THEN hi ELSE x

\* Step 4 adding min(dispLen, T) for every node, moved or not.
ClampedLengthAll(dispLen, t) == Min(dispLen, t)

\* What step 4 adds to `energy` for a node whose displacement has length
\* dispLen.
ClampedLength(dispLen, t) == IF dispLen > DispEps THEN Min(dispLen, t) ELSE 0

Clamped(v, t) ==
    LET dispLen == Length(v.displacement) IN ClampedLength(dispLen, t)

\* Step 4 adding the whole displacement, not cut to length T.
MovedUnclamped(v, t, dispLen) == VAdd(v.position, v.displacement)

\* position += (displacement / dispLen) * clamped, when the node is moved.
Moved(v, t, dispLen) ==
    IF dispLen > DispEps
    THEN VAdd(v.position, VMulDiv(v.displacement, Min(dispLen, t), dispLen))
    ELSE v.position

\* Step 4 without its boundary clamp.
ClampToFrameOff(p) == p

\* The boundary clamp of step 4.
ClampToFrame(p) == << Clamp(p[1], 0, FrameW), Clamp(p[2], 0, FrameH) >>

\* Step 4 of LayoutEngine::step for one node: move by the displacement cut to
\* length T, then clamp to the frame.
ApplyNode(v, t) ==
    LET dispLen == Length(v.displacement)
    IN  [v EXCEPT !.position = ClampToFrame(Moved(v, t, dispLen))]

RECURSIVE Sum(_, _)
Sum(f, n) == IF n = 0 THEN 0 ELSE f[n] + Sum(f, n - 1)

\* Step 5 without the floor T_min_.
CoolNoFloor(t, rate) == MulDiv(t, rate, 100)

\* Step 5 of LayoutEngine::step: T_ = max(T_ * coolingRate_, T_min_).
Cool(t, rate) == Max(MulDiv(t, rate, 100), TMin)

\* The statements of LayoutEngine::step in program order; "idle" stands for
\* the engine outside step, "returned" for the moment step has returned and
\* "crashed" for a process ended by stack exhaustion.
Phases == <<"reset", "repulse", "attract", "apply", "record", "cool">>

\* step with steps 3 and 4 exchanged: positions are written before the edges
\* pull.
BeforeApplyFirst(ph) ==
    CASE ph = "reset"   -> "idle"
      [] ph = "repulse" -> "reset"
      [] ph = "apply"   -> "repulse"
      [] ph = "attract" -> "apply"
      [] ph = "record"  -> "attract"
      [] ph = "cool"    -> "record"

\* The phase after which phase ph runs.
Before(ph) ==
    CASE ph = "reset"   -> "idle"
      [] ph = "repulse" -> "reset"
      [] ph = "attract" -> "repulse"
      [] ph = "apply"   -> "attract"
      [] ph = "record"  -> "apply"
      [] ph = "cool"    -> "record"

\* ------------------------------------------------------------------------
\* State
\* ------------------------------------------------------------------------

VARIABLES
    nodes,              \* Graph::nodes_
    edges,              \* Graph::edges_, as <<source, target>>
    C,                  \* LayoutEngine::C_ in hundredths
    k,                  \* LayoutEngine::k_
    T,                  \* LayoutEngine::T_
    coolingRate,        \* LayoutEngine::coolingRate_ in hundredths
    lastKineticEnergy,  \* LayoutEngine::lastKineticEnergy_
    strategy,           \* LayoutEngine::repulsiveStrategy_
    pc,                 \* where the engine is in step
    energy,             \* the local `energy` of step
    Tpre,               \* history: T_ when the current step began
    pos0,               \* history: the positions when the current step began
    steps,              \* history: completed steps
    tree,               \* a QuadTree under direct use
    inserted,           \* history: the insert calls made on it, with results
    treeStatus,         \* "ok", or "overflow" once an insert exhausted the stack
    index,              \* Graph::index_
    adjacency,          \* Graph::adjacency_
    call,               \* history: the last call made on the Graph, with its outcome
    twin                \* a second run on the same graph: its engine and positions

vars == << nodes, edges, C, k, T, coolingRate, lastKineticEnergy, strategy, pc,
           energy, Tpre, pos0, steps, tree, inserted, treeStatus, index,
           adjacency, call, twin >>

engineVars == << nodes, edges, C, k, T, coolingRate, lastKineticEnergy,
                 strategy, pc, energy, Tpre, pos0, steps >>

treeVars == << tree, inserted, treeStatus >>

graphVars == << index, adjacency, call >>

Positions(ns) == [i \in 1..Len(ns) |-> ns[i].position]

\* The root bounds of the QuadTree under direct use.
TreeBounds == BoundingBox(<<0, 0>>, 64, 64, 0)

TreeInit ==
    /\ tree = <<NewQuadTree(TreeBounds)>>
    /\ inserted = <<>>
    /\ treeStatus = "ok"

\* main: a graph from Graph::erdosRenyi, then LayoutEngine(W, H, C).
EngineInit ==
    /\ \E n \in 0..MaxNodes :
         /\ nodes = ErdosRenyiNodes(n)
         /\ edges \in SUBSET ErdosRenyiPairs(n)
         /\ index = BuiltGraph(n, edges).index
         /\ adjacency = BuiltGraph(n, edges).adjacency
    /\ C \in CValues
    /\ k = DefaultK
    /\ T = DefaultT
    /\ coolingRate = DefaultCoolingRate
    /\ lastKineticEnergy = 0
    /\ strategy = [kind |-> "BruteForce"]
    /\ pc = "idle"
    /\ energy = 0
    /\ Tpre = DefaultT
    /\ pos0 = Positions(nodes)
    /\ steps = 0

\* No call has been made on the Graph since it was built.
NoCall == [op |-> "none", args |-> <<>>, threw |-> "none"]

\* The second run before its initialize: an engine constructed like the
\* first, on a copy of the graph, to be initialised with seed sd.
TwinOf(sd) ==
    [ seed |-> sd, initialized |-> FALSE, nodes |-> nodes, k |-> k, T |-> T,
      lastKineticEnergy |-> lastKineticEnergy, steps |-> 0, crashed |-> FALSE ]

Init ==
    /\ EngineInit
    /\ TreeInit
    /\ call = NoCall
    /\ twin = TwinOf(FirstOf(Seeds))

\* The engine is outside step and the process is alive.
Idle == pc \in {"idle", "returned"}

\* ------------------------------------------------------------------------
\* Actions of the engine's caller
\* ------------------------------------------------------------------------

\* LayoutEngine::initialize(g, seed).
Initialize(seed) ==
    /\ Idle
    /\ steps = 0
    /\ k' = OptimalDistance(C, Len(nodes))
    /\ \E sd \in SeedUsed(seed) : nodes' = Scatter(nodes, sd)
    /\ lastKineticEnergy' = 0
    /\ pc' = "idle"
    /\ UNCHANGED << edges, C, T, coolingRate, strategy, energy, Tpre, pos0,
                    steps, treeVars, graphVars, twin >>

\* LayoutEngine::setTemperature(t).
SetTemperature(t) ==
    /\ Idle
    /\ steps = 0
    /\ T' = t
    /\ pc' = "idle"
    /\ UNCHANGED << nodes, edges, C, k, coolingRate, lastKineticEnergy,
                    strategy, energy, Tpre, pos0, steps, treeVars, graphVars, twin >>

\* LayoutEngine::setCoolingRate(r).
SetCoolingRate(r) ==
    /\ Idle
    /\ steps = 0
    /\ coolingRate' = r
    /\ pc' = "idle"
    /\ UNCHANGED << nodes, edges, C, k, T, lastKineticEnergy, strategy,
                    energy, Tpre, pos0, steps, treeVars, graphVars, twin >>

\* LayoutEngine::setRepulsiveStrategy(s).
SetRepulsiveStrategy(s) ==
    /\ Idle
    /\ steps = 0
    /\ strategy' = s
    /\ pc' = "idle"
    /\ UNCHANGED << nodes, edges, C, k, T, coolingRate, lastKineticEnergy,
                    energy, Tpre, pos0, steps, treeVars, graphVars, twin >>

\* The caller assigns g.nodes()[i].position = p.
PlaceNode(i, p) ==
    /\ Idle
    /\ steps = 0
    /\ i \in 1..Len(nodes)
    /\ nodes' = [nodes EXCEPT ![i] = [nodes[i] EXCEPT !.position = p]]
    /\ pc' = "idle"
    /\ UNCHANGED << edges, C, k, T, coolingRate, lastKineticEnergy, strategy,
                    energy, Tpre, pos0, steps, treeVars, graphVars, twin >>

\* ------------------------------------------------------------------------
\* LayoutEngine::step, statement by statement
\* ------------------------------------------------------------------------

\* Step 1, entered from outside step; the forces must fit the model's
\* integers.
StepBegins ==
    /\ Idle
    /\ Before("reset") = "idle"
    /\ Len(nodes) = 0 \/ k <= KMax
    /\ nodes' = ResetDisplacements(nodes)
    /\ energy' = 0
    /\ Tpre' = T
    /\ pos0' = Positions(nodes)
    /\ pc' = "reset"
    /\ UNCHANGED << edges, C, k, T, coolingRate, lastKineticEnergy, strategy,
                    steps, treeVars, graphVars, twin >>

StepReset ==
    /\ steps < MaxSteps
    /\ StepBegins

\* The outcome r of the strategy call: the displacements it wrote, or the end
\* of the process.
Repulsed(r) ==
    /\ nodes' = r.nodes
    /\ pc' = IF r.overflow THEN "crashed" ELSE "repulse"

StepRepulse ==
    /\ pc = Before("repulse")
    /\ LET r == ComputeRepulsive(strategy, nodes, k) IN Repulsed(r)
    /\ UNCHANGED << edges, C, k, T, coolingRate, lastKineticEnergy, strategy,
                    energy, Tpre, pos0, steps, treeVars, graphVars, twin >>

StepAttract ==
    /\ pc = Before("attract")
    /\ nodes' = Attract(nodes, edges, k)
    /\ pc' = "attract"
    /\ UNCHANGED << edges, C, k, T, coolingRate, lastKineticEnergy, strategy,
                    energy, Tpre, pos0, steps, treeVars, graphVars, twin >>

StepApply ==
    /\ pc = Before("apply")
    /\ nodes' = [i \in 1..Len(nodes) |-> ApplyNode(nodes[i], T)]
    /\ energy' = Sum([i \in 1..Len(nodes) |-> Clamped(nodes[i], T)], Len(nodes))
    /\ pc' = "apply"
    /\ UNCHANGED << edges, C, k, T, coolingRate, lastKineticEnergy, strategy,
                    Tpre, pos0, steps, treeVars, graphVars, twin >>

StepRecord ==
    /\ pc = Before("record")
    /\ lastKineticEnergy' = energy
    /\ pc' = "record"
    /\ UNCHANGED << nodes, edges, C, k, T, coolingRate, strategy, energy, Tpre,
                    pos0, steps, treeVars, graphVars, twin >>

StepCool ==
    /\ pc = Before("cool")
    /\ T' = Cool(T, coolingRate)
    /\ steps' = steps + 1
    /\ pc' = "returned"
    /\ UNCHANGED << nodes, edges, C, k, coolingRate, lastKineticEnergy,
                    strategy, energy, Tpre, pos0, treeVars, graphVars, twin >>

Step ==
    \/ StepReset
    \/ StepRepulse
    \/ StepAttract
    \/ StepApply
    \/ StepRecord
    \/ StepCool

Strategies ==
    {[kind |-> "BruteForce"]} \cup {[kind |-> "BarnesHut", theta |-> th] : th \in Thetas}

Next ==
    \/ \E seed \in OptionalSeeds : Initialize(seed)
    \/ \E t \in Temperatures : SetTemperature(t)
    \/ \E r \in CoolingRates : SetCoolingRate(r)
    \/ \E s \in Strategies : SetRepulsiveStrategy(s)
    \/ \E i \in 1..MaxNodes, p \in Places : PlaceNode(i, p)
    \/ Step

Spec == Init /\ [][Next]_vars

\* ------------------------------------------------------------------------
\* The Graph under direct use
\* ------------------------------------------------------------------------

\* The Graph object the state holds.
GraphOf ==
    [nodes |-> nodes, edges |-> edges, index |-> index, adjacency |-> adjacency]

\* A call op(args) on the Graph ends with outcome r.
Outcome(op, args, r) ==
    /\ nodes' = r.graph.nodes
    /\ edges' = r.graph.edges
    /\ index' = r.graph.index
    /\ adjacency' = r.graph.adjacency
    /\ call' = [op |-> op, args |-> args, threw |-> r.threw]
    /\ UNCHANGED << C, k, T, coolingRate, lastKineticEnergy, strategy, pc,
                    energy, Tpre, pos0, steps, treeVars, twin >>

\* g.addVertex(id).
GraphAddVertex(id) ==
    /\ id \in Ids
    /\ LET r == AddVertex(GraphOf, id) IN Outcome("addVertex", <<id>>, r)

\* g.addEdge(u, v).
GraphAddEdge(u, v) ==
    /\ u \in Ids /\ v \in Ids
    /\ LET r == AddEdge(GraphOf, u, v) IN Outcome("addEdge", <<u, v>>, r)

\* g = Graph::erdosRenyi(n, p, seed).
GraphErdosRenyi(n, p) ==
    /\ n \in 0..MaxNodes
    /\ \E coins \in Coins(n, p) :
          LET r == ErdosRenyi(GraphOf, n, p, coins)
          IN  Outcome("erdosRenyi", <<n, p>>, r)

\* Graph g; and an engine that is not used.
GraphSpecInit ==
    /\ Init
    /\ Len(nodes) = 0
    /\ C = 100

GraphNext ==
    \/ \E id \in Ids : GraphAddVertex(id)
    \/ \E u, v \in Ids : GraphAddEdge(u, v)
    \/ \E n \in 0..MaxNodes, p \in PValues : GraphErdosRenyi(n, p)

GraphSpec == GraphSpecInit /\ [][GraphNext]_vars

\* ------------------------------------------------------------------------
\* Two runs on the same graph with the same seed and strategy
\* ------------------------------------------------------------------------

\* LayoutEngine::step as a whole on the second run e, from the end backwards:
\* steps 4 to 6 on the nodes a that carry the accumulated displacements.
AfterAttraction(e, a) ==
    [e EXCEPT
       !.nodes = [i \in 1..Len(a) |-> ApplyNode(a[i], e.T)],
       !.lastKineticEnergy =
          Sum([i \in 1..Len(a) |-> Clamped(a[i], e.T)], Len(a)),
       !.T = Cool(e.T, coolingRate),
       !.steps = e.steps + 1]

\* Step 3 onwards, r being the outcome of the strategy call.
AfterRepulsion(e, r) ==
    IF r.overflow THEN [e EXCEPT !.crashed = TRUE]
    ELSE LET a == Attract(r.nodes, edges, e.k) IN AfterAttraction(e, a)

WholeStep(e) ==
    LET r == ComputeRepulsive(strategy, ResetDisplacements(e.nodes), e.k)
    IN  AfterRepulsion(e, r)

\* The second run calls initialize(g, seed).
TwinInitialize ==
    /\ ~twin.initialized
    /\ \E sd \in SeedUsed({twin.seed}) :
         twin' = [twin EXCEPT !.initialized = TRUE,
                              !.nodes = Scatter(twin.nodes, sd),
                              !.k = OptimalDistance(C, Len(twin.nodes)),
                              !.lastKineticEnergy = 0]
    /\ UNCHANGED << engineVars, treeVars, graphVars >>

\* The second run calls step(g).
TwinStep ==
    /\ twin.initialized
    /\ ~twin.crashed
    /\ twin.steps < MaxSteps
    /\ Len(twin.nodes) = 0 \/ twin.k <= KMax
    /\ twin' = WholeStep(twin)
    /\ UNCHANGED << engineVars, treeVars, graphVars >>

\* Two engines constructed alike on copies of one graph and given the same
\* strategy and temperature; both runs are to use the same seed.
TwinSpecInit ==
    /\ \E n \in 0..MaxNodes :
         /\ nodes = ErdosRenyiNodes(n)
         /\ edges \in SUBSET ErdosRenyiPairs(n)
         /\ index = BuiltGraph(n, edges).index
         /\ adjacency = BuiltGraph(n, edges).adjacency
    /\ C \in CValues
    /\ k = DefaultK
    /\ T \in Temperatures \cup {DefaultT}
    /\ coolingRate = DefaultCoolingRate
    /\ lastKineticEnergy = 0
    /\ strategy \in Strategies
    /\ pc = "idle"
    /\ energy = 0
    /\ Tpre = T
    /\ pos0 = Positions(nodes)
    /\ steps = 0
    /\ TreeInit
    /\ call = NoCall
    /\ \E sd \in Seeds : twin = TwinOf(sd)

TwinNext ==
    \/ Initialize({twin.seed})
    \/ Step
    \/ TwinInitialize
    \/ TwinStep

TwinSpec == TwinSpecInit /\ [][TwinNext]_vars

\* ------------------------------------------------------------------------
\* A run left to cool: setters first, then initialize and step only
\* ------------------------------------------------------------------------

CoolStepReset ==
    /\ steps < MaxCoolSteps
    /\ StepBegins

CoolStep ==
    \/ CoolStepReset
    \/ StepRepulse
    \/ StepAttract
    \/ StepApply
    \/ StepRecord
    \/ StepCool

\* The engine after construction, any calls of setTemperature,
\* setCoolingRate and setRepulsiveStrategy, and initialize(g, sd).
CoolSpecInit ==
    /\ \E n \in 0..MaxCoolNodes, sd \in Seeds :
         /\ nodes = Scatter(ErdosRenyiNodes(n), sd)
         /\ edges \in SUBSET ErdosRenyiPairs(n)
         /\ index = BuiltGraph(n, edges).index
         /\ adjacency = BuiltGraph(n, edges).adjacency
    /\ C \in CValues
    /\ k = OptimalDistance(C, Len(nodes))
    /\ T \in Temperatures
    /\ coolingRate \in CoolingRates \cup {DefaultCoolingRate}
    /\ lastKineticEnergy = 0
    /\ strategy \in Strategies
    /\ pc = "idle"
    /\ energy = 0
    /\ Tpre = T
    /\ pos0 = Positions(nodes)
    /\ steps = 0
    /\ TreeInit
    /\ call = NoCall
    /\ twin = TwinOf(FirstOf(Seeds))

CoolNext ==
    \/ \E seed \in OptionalSeeds : Initialize(seed)
    \/ CoolStep

\* Some statement of step can run: a step is under way, or the caller can
\* begin one.  This is the enabling condition of CoolStep.
StepCanRun ==
    \/ pc \in {"reset", "repulse", "attract", "apply", "record"}
    \/ /\ Idle
       /\ steps < MaxCoolSteps
       /\ Len(nodes) = 0 \/ k <= KMax

ProgramPoints ==
    {"idle", "reset", "repulse", "attract", "apply", "record", "returned",
     "crashed"}

\* A statement of step runs: the steps of CoolNext that move pc are those of
\* CoolStep, and every step of CoolStep moves pc.
StatementRuns ==
    /\ StepCanRun
    /\ pc' \in ProgramPoints
    /\ pc' # pc

\* The caller keeps calling step, and a step that has begun runs on to its
\* next statement: weak fairness of CoolStep, stated on pc so that it is
\* decided without computing the forces.
CoolSpec == CoolSpecInit /\ [][CoolNext]_vars /\ WF_pc(StatementRuns)

\* ------------------------------------------------------------------------
\* The QuadTree under direct use
\* ------------------------------------------------------------------------

\* tree.insert(p, id) with the next unused node id.
TreeInsert(p) ==
    /\ treeStatus = "ok"
    /\ Len(inserted) < MaxInserts
    /\ LET r == Insert(tree, p, Len(inserted))
       IN  /\ tree' = r.tree
           /\ inserted' = Append(inserted, [pos |-> p, id |-> Len(inserted),
                                            ok |-> r.ok])
           /\ treeStatus' = IF r.overflow THEN "overflow" ELSE "ok"
    /\ UNCHANGED << engineVars, graphVars, twin >>

TreeSpecInit ==
    /\ Init
    /\ Len(nodes) = 1
    /\ C = 100

TreeNext == \E p \in TreePoints : TreeInsert(p)

TreeSpec == TreeSpecInit /\ [][TreeNext]_vars

\* ------------------------------------------------------------------------
\* Properties of LayoutEngine::step
\* ------------------------------------------------------------------------

\* step has returned and nothing has touched the engine since.
Returned == pc = "returned"

InFrame(p) == 0 <= p[1] /\ p[1] <= FrameW /\ 0 <= p[2] /\ p[2] <= FrameH

\* The length of node i's displacement as step 4 reads it.
DispLen(i) == Length(nodes[i].displacement)

\* Where step 4 puts node i before the boundary clamp.
Unclamped(i) ==
    IF DispLen(i) > DispEps
    THEN VAdd(pos0[i], VMulDiv(nodes[i].displacement, Min(DispLen(i), Tpre),
                               DispLen(i)))
    ELSE pos0[i]

\* C1: after a completed step, whatever the graph, strategy, temperature and
\* cooling rate, every node's position has 0 <= x <= W and 0 <= y <= H.
C1_PositionsInFrame ==
    Returned => \A i \in 1..Len(nodes) : InFrame(nodes[i].position)

\* A completed step whose move of some node would have left the frame.
C1_Witness ==
    /\ Returned
    /\ \E i \in 1..Len(nodes) : ~InFrame(Unclamped(i))

\* C2: after a step the temperature is max(T_prev * alpha, T_min), T_prev
\* being the temperature before the step; so it is never below T_min, and it
\* is strictly below T_prev when alpha < 1 and T_prev > T_min.
C2_Cooling ==
    Returned =>
      /\ IF Tpre * coolingRate < TMin * 100
         THEN T = TMin
         ELSE 100 * T <= Tpre * coolingRate /\ Tpre * coolingRate < 100 * (T + 1)
      /\ T >= TMin
      /\ (coolingRate < 100 /\ Tpre > TMin) => T < Tpre

\* A step that cooled from above the floor down to the floor.
C2_Witness ==
    /\ Returned
    /\ coolingRate < 100
    /\ Tpre > TMin
    /\ T = TMin

\* C3 as stated: when step returns, kineticEnergy() is the sum over all nodes
\* of min(|displacement before application|, T_pre), so that every nonzero
\* displacement, however small, contributes.
C3_EnergyOverAllNodes ==
    Returned =>
      lastKineticEnergy =
        Sum([i \in 1..Len(nodes) |-> Min(DispLen(i), Tpre)], Len(nodes))

\* C3: when step returns, kineticEnergy() is the sum, over the nodes whose
\* displacement before application is longer than 1e-6, of
\* min(|displacement|, T_pre), T_pre being the temperature before cooling.
C3_EnergyOverMovedNodes ==
    Returned =>
      lastKineticEnergy =
        Sum([i \in 1..Len(nodes) |->
               IF DispLen(i) > DispEps THEN Min(DispLen(i), Tpre) ELSE 0],
            Len(nodes))

\* A completed step in which some node's displacement is nonzero but not
\* longer than 1e-6.
C3_Witness ==
    /\ Returned
    /\ \E i \in 1..Len(nodes) : 0 < DispLen(i) /\ DispLen(i) <= DispEps

\* The nodes at the positions held when the current step began, with
\* cleared displacements.
Snapshot ==
    ResetDisplacements([i \in 1..Len(nodes) |->
                          [nodes[i] EXCEPT !.position = pos0[i]]])

\* Brute-force repulsion on the snapshot.
BruteForceOnSnapshot == BruteForceRepulsive(Snapshot, k)

\* Every two nodes of the snapshot are at least 1e-4 apart.
PairwiseApart ==
    \A i, j \in 1..Len(nodes) :
       i < j => Length(VSub(pos0[i], pos0[j])) >= Eps

\* C4 as stated: for nodes at pairwise distances >= 1e-4 and any k,
\* BarnesHutRepulsion with theta = 0 accumulates into each node exactly the
\* displacement BruteForceRepulsion accumulates, the sum over the other nodes
\* j of (k^2 / d^2) * (p_i - p_j).
C4_ThetaZeroIsBruteForce ==
    ( /\ pc = "repulse"
      /\ Len(nodes) > 1
      /\ strategy.kind = "BarnesHut"
      /\ strategy.theta = 0
      /\ PairwiseApart )
    => \A i \in 1..Len(nodes) :
          nodes[i].displacement = BruteForceOnSnapshot[i].displacement

\* The order of the statements of step.
PhaseOrder ==
    { <<"idle", "reset">>, <<"returned", "reset">>, <<"reset", "repulse">>,
      <<"repulse", "attract">>, <<"attract", "apply">>, <<"apply", "record">>,
      <<"record", "cool">> }

\* The statement of step that a transition into program point q executes.
Statement(q) == IF q = "returned" THEN "cool" ELSE q

\* The repulsive and attractive displacements of every node, computed from
\* the snapshot.
ForcesOfSnapshot(r) == Attract(r.nodes, edges, k)

SnapshotForces ==
    LET r == ComputeRepulsive(strategy, Snapshot, k) IN ForcesOfSnapshot(r)

CoincidentStart ==
    /\ pc # "idle"
    /\ Len(nodes) = 2
    /\ edges = {}
    /\ pos0[1] = pos0[2]
    /\ InFrame(pos0[1])
    /\ Tpre > 0

Move(i) == VSub(nodes[i].position, pos0[i])

C10_CoincidentPairSeparates ==
    CoincidentStart =>
      /\ pc # "crashed"
      /\ Returned =>
           /\ \A i \in 1..2 : Move(i) # <<0, 0>> /\ Length(Move(i)) <= Tpre
           /\ Move(1)[1] * Move(2)[1] + Move(1)[2] * Move(2)[2] < 0
           /\ Move(1)[1] * Move(2)[2] = Move(1)[2] * Move(2)[1]
           /\ nodes[1].position # nodes[2].position

\* ------------------------------------------------------------------------
\* Properties of the QuadTree
\* ------------------------------------------------------------------------

\* The insert calls that returned true.
Successful == {n \in 1..Len(inserted) : inserted[n].ok}

\* The sum of coordinate c over the successfully inserted positions.
SumOfInserted(c) ==
    Sum([n \in 1..Len(inserted) |->
           IF inserted[n].ok THEN inserted[n].pos[c] ELSE 0], Len(inserted))

\* C6: after n successful insertions the root's totalMass is n and the
\* root's centerOfMass is the arithmetic mean of the n inserted positions as
\* the online update mu' = (mu * n + p) / (n + 1) maintains it: each update
\* rounds once, by less than one grid point per unit of the new mass.
C6_RootAggregate ==
    treeStatus = "ok" =>
      /\ tree[1].totalMass = Cardinality(Successful)
      /\ \A c \in 1..2 :
           2 * Abs(Cardinality(Successful) * tree[1].centerOfMass[c]
                   - SumOfInserted(c))
             <= Cardinality(Successful) * (Cardinality(Successful) - 1)

\* Three successful insertions at three different positions.
C6_Witness ==
    /\ treeStatus = "ok"
    /\ Cardinality(Successful) = 3
    /\ Cardinality({inserted[n].pos : n \in Successful}) = 3
    /\ tree[1].centerOfMass # <<0, 0>>

\* The successfully inserted points inside the closed bounds of cell c.
InsideBounds(c) ==
    {n \in Successful : Contains(tree[c].bounds, inserted[n].pos)}

\* C7 as stated: every cell's totalMass is the number of inserted points
\* inside the cell's closed bounds, points on a boundary shared by sibling
\* cells included.
C7_MassIsPointsInBounds ==
    treeStatus = "ok" =>
      \A c \in 1..Len(tree) : tree[c].totalMass = Cardinality(InsideBounds(c))

\* The cell whose child c is.
Parent(c) ==
    CHOOSE d \in 1..Len(tree) :
       tree[d].isSubdivided /\ \E i \in 1..4 : tree[d].children[i] = c

\* Among the children of d, c is the first whose closed bounds contain p.
FirstChildWith(d, c, p) ==
    \E i \in 1..4 :
       /\ tree[d].children[i] = c
       /\ Contains(tree[c].bounds, p)
       /\ \A j \in 1..(i - 1) : ~Contains(tree[tree[d].children[j]].bounds, p)

\* A point at p descends through cell c: from the root, at every level into
\* the first child whose closed bounds contain it.
RECURSIVE DescendsThrough(_, _)
DescendsThrough(c, p) ==
    IF c = 1 THEN Contains(tree[1].bounds, p)
    ELSE FirstChildWith(Parent(c), c, p) /\ DescendsThrough(Parent(c), p)

\* C7: every cell's totalMass is the number of successfully inserted points
\* that descend through the cell, each point entering at every level only
\* the first child (in the order NE, NW, SW, SE) whose closed bounds contain
\* it; a point on a boundary shared by sibling cells counts in one of them
\* only, so a cell's totalMass is at most the number of inserted points
\* inside its closed bounds, and the root's is the number of successful
\* insertions.
C7_MassIsPointsRouted ==
    treeStatus = "ok" =>
      /\ tree[1].totalMass = Cardinality(Successful)
      /\ \A c \in 1..Len(tree) :
           /\ tree[c].totalMass =
                Cardinality({n \in Successful :
                               DescendsThrough(c, inserted[n].pos)})
           /\ tree[c].totalMass <= Cardinality(InsideBounds(c))

\* Some cell holds fewer points than lie inside its closed bounds: a point on
\* the boundary it shares with a sibling went to the sibling.
C7_Witness ==
    /\ treeStatus = "ok"
    /\ \E c \in 1..Len(tree) :
          tree[c].totalMass < Cardinality(InsideBounds(c))

\* The leaves that store the point of insert call n.
LeavesStoring(n) ==
    {c \in 1..Len(tree) :
       /\ IsLeaf(tree[c])
       /\ tree[c].totalMass > 0
       /\ tree[c].point = inserted[n].pos
       /\ tree[c].pointId = inserted[n].id}

\* C8 as stated: after insertions of points at pairwise distinct positions
\* inside the root bounds, every inserted (pos, id) is stored in exactly one
\* leaf, and that leaf's bounds contain pos.
C8_EveryPointInOneLeaf ==
    ( /\ treeStatus = "ok"
      /\ \A n \in 1..Len(inserted) : inserted[n].ok
      /\ \A m, n \in 1..Len(inserted) :
            m # n => inserted[m].pos # inserted[n].pos )
    => \A n \in 1..Len(inserted) :
          /\ Cardinality(LeavesStoring(n)) = 1
          /\ \A c \in LeavesStoring(n) : Contains(tree[c].bounds, inserted[n].pos)

C12_EmptyGraphRejected ==
    Len(nodes) = 0 =>
      /\ k = DefaultK
      /\ pc = "idle"
      /\ steps = 0

\* ------------------------------------------------------------------------
\* Properties of two runs
\* ------------------------------------------------------------------------

IdsOf(ns) == [i \in 1..Len(ns) |-> ns[i].id]

\* The Graph object is as it was.
GraphUnchanged == UNCHANGED << nodes, edges, index, adjacency >>

\* C13: Graph::erdosRenyi(n, p, seed) fails with a domain error, before any
\* graph is built, exactly when p < 0 or p > 1; for p in [0, 1] it returns a
\* graph whose vertices are exactly 0 .. n-1 and whose every edge joins two
\* ids i < j < n.
C13_ErdosRenyi ==
    [][ call'.op = "erdosRenyi" =>
          /\ call'.threw = "domain_error"
               <=> (call'.args[2] < 0 \/ call'.args[2] > 100)
          /\ call'.threw \in {"none", "domain_error"}
          /\ call'.threw = "domain_error" => GraphUnchanged
          /\ call'.threw = "none" =>
               /\ IdsOf(nodes') = [i \in 1..call'.args[1] |-> i - 1]
               /\ \A e \in edges' :
                    0 <= e[1] /\ e[1] < e[2] /\ e[2] < call'.args[1] ]_vars

\* erdosRenyi was called with a negative p on a caller that holds a graph
\* with an edge, and threw.
C13_Witness ==
    /\ call.op = "erdosRenyi"
    /\ call.args[2] < 0
    /\ call.threw = "domain_error"
    /\ edges # {}

\* Edges over a few more ids than the graph is given.
EdgeIds == 0..(MaxId + 2)

\* C14: for all edges e and f, e.canonical() is (min(source, target),
\* max(source, target)), canonical() is idempotent, e == f exactly when the
\* canonical forms are equal, and e == f implies EdgeHash(e) = EdgeHash(f).
C14_EdgeCanonical ==
    \A e \in (EdgeIds \X EdgeIds) \cup edges :
       /\ Canonical(e) = << Min(e[1], e[2]), Max(e[1], e[2]) >>
       /\ Canonical(Canonical(e)) = Canonical(e)
       /\ \A f \in (EdgeIds \X EdgeIds) \cup edges :
            /\ EdgeEq(e, f) <=> Canonical(e) = Canonical(f)
            /\ EdgeEq(e, f) => EdgeHash(e) = EdgeHash(f)

\* addEdge(u, v) with u > v was called on a graph that holds the edge as
\* (v, u): the set looked the new edge up by hash and operator==.
C14_Witness ==
    /\ call.op = "addEdge"
    /\ call.threw = "none"
    /\ call.args[1] > call.args[2]
    /\ << call.args[2], call.args[1] >> \in edges

\* The edge (u, v) is in the edge set in one orientation or the other.
HasEdge(es, u, v) == <<u, v>> \in es \/ <<v, u>> \in es

\* C15: adding an edge that is already present, in either orientation, is a
\* no-op: edgeCount(), the edge set and every adjacency list are unchanged.
C15_DuplicateEdgeNoOp ==
    [][ (call'.op = "addEdge" /\ HasEdge(edges, call'.args[1], call'.args[2]))
          => /\ call'.threw = "none"
             /\ Cardinality(edges') = Cardinality(edges)
             /\ GraphUnchanged ]_vars

\* addEdge(u, v) was called while the graph held (v, u) and not (u, v), and
\* it still does.
C15_Witness ==
    /\ call.op = "addEdge"
    /\ call.threw = "none"
    /\ call.args[1] # call.args[2]
    /\ << call.args[2], call.args[1] >> \in edges
    /\ << call.args[1], call.args[2] >> \notin edges

\* C16 as stated: after any sequence of addVertex and addEdge calls every
\* edge joins two distinct ids; the graph never holds a self-loop (u, u).
C16_NoSelfLoop == \A e \in edges : e[1] # e[2]

\* The elements of a sequence.
Range(q) == {q[i] : i \in 1..Len(q)}

\* Every edge's endpoints are vertices, the adjacency lists are symmetric,
\* and index_ maps the ids one-to-one onto the positions of nodes_.
WellFormed(ns, es, ix, adj) ==
    /\ \A e \in es : e[1] \in Range(IdsOf(ns)) /\ e[2] \in Range(IdsOf(ns))
    /\ DOMAIN adj = Range(IdsOf(ns))
    /\ \A u \in DOMAIN adj : \A v \in Range(adj[u]) :
          v \in DOMAIN adj /\ u \in Range(adj[v])
    /\ DOMAIN ix = Range(IdsOf(ns))
    /\ \A i \in 1..Len(ns) : ix[ns[i].id] = i - 1
    /\ \A i, j \in 1..Len(ns) : ns[i].id = ns[j].id => i = j

\* C17: after any sequence of addVertex and addEdge calls, throwing ones
\* included, every edge's endpoints exist as vertices, v is in neighbours(u)
\* exactly when u is in neighbours(v), and the id -> index mapping is a
\* bijection onto the node sequence; a call that throws leaves the graph
\* unchanged.
C17_GraphWellFormed ==
    [][ /\ WellFormed(nodes', edges', index', adjacency')
        /\ call'.threw # "none" => GraphUnchanged ]_vars

\* addVertex threw for an id that exists, on a graph with two vertices and
\* an edge between them.
C17_Witness ==
    /\ call.op = "addVertex"
    /\ call.threw = "invalid_argument"
    /\ Len(nodes) = 2
    /\ \E e \in edges : e[1] # e[2]

\* ------------------------------------------------------------------------
\* Frame properties of step and of the strategies
\* ------------------------------------------------------------------------

\* C18: step and computeRepulsive of either strategy leave the topology
\* unchanged: node ids, node count and order, the edge set and the adjacency
\* lists are the same before and after every statement of step; and
\* computeRepulsive writes displacements only, never a position.
C18_TopologyFrozen ==
    [][ (pc' # pc /\ pc' # "idle") =>
          /\ IdsOf(nodes') = IdsOf(nodes)
          /\ edges' = edges
          /\ adjacency' = adjacency
          /\ index' = index
          /\ pc = "reset" => Positions(nodes') = Positions(nodes) ]_vars

\* Barnes-Hut repulsion has just written a displacement on a graph with an
\* edge.
C18_Witness ==
    /\ pc = "repulse"
    /\ strategy.kind = "BarnesHut"
    /\ edges # {}
    /\ \E u \in DOMAIN adjacency : adjacency[u] # <<>>
    /\ \E i \in 1..Len(nodes) : nodes[i].displacement # <<0, 0>>

\* ------------------------------------------------------------------------
\* Properties of QuadTree::insert
\* ------------------------------------------------------------------------

\* The insert call that the step to the next state makes, if it makes one.
Inserting == Len(inserted') = Len(inserted) + 1

\* C19: insert(pos, id) with pos outside the root's closed bounds reports
\* failure and leaves the whole tree unchanged: totalMass, centerOfMass,
\* stored point and children of every cell.
C19_OutsideRootRefused ==
    [][ (Inserting /\ ~Contains(tree[1].bounds, inserted'[Len(inserted')].pos))
          => /\ ~inserted'[Len(inserted')].ok
             /\ tree' = tree
             /\ treeStatus' = treeStatus ]_vars

\* The last insert, on a tree that has subdivided, was refused.
C19_Witness ==
    /\ Len(inserted) > 0
    /\ ~inserted[Len(inserted)].ok
    /\ tree[1].isSubdivided
    /\ tree[1].totalMass = 2

\* quadrant(p) of a cell with bounds b, counted from 1: NE, NW, SW, SE; east
\* iff p.x >= cx and north iff p.y >= cy.
QuadrantOf(b, p) ==
    IF p[1] >= b.center[1]
    THEN (IF p[2] >= b.center[2] THEN 1 ELSE 4)
    ELSE (IF p[2] >= b.center[2] THEN 2 ELSE 3)

\* C20 as stated: every point inserted into a subdivided cell with centre
\* (cx, cy) is routed to the child quadrant(pos) names, points on the
\* cell's centre lines included.
C20_RoutedByQuadrant ==
    treeStatus = "ok" =>
      \A c \in 1..Len(tree) : \A n \in Successful :
         (tree[c].isSubdivided /\ DescendsThrough(c, inserted[n].pos))
           => DescendsThrough(
                 tree[c].children[QuadrantOf(tree[c].bounds, inserted[n].pos)],
                 inserted[n].pos)

\* The successful insert calls whose point descends through cell c.
Through(c) == {n \in Successful : DescendsThrough(c, inserted[n].pos)}

\* C21: after any sequence of insertions that returned, no cell with
\* totalMass >= 2 is a leaf, and every leaf with totalMass = 1 stores the
\* position and the id of the single point inserted into it.
C21_LeafHoldsOnePoint ==
    treeStatus = "ok" =>
      \A c \in 1..Len(tree) :
         /\ tree[c].totalMass >= 2 => ~IsLeaf(tree[c])
         /\ (IsLeaf(tree[c]) /\ tree[c].totalMass = 1)
              => /\ Cardinality(Through(c)) = 1
                 /\ \A n \in Through(c) :
                       /\ tree[c].point = inserted[n].pos
                       /\ tree[c].pointId = inserted[n].id

\* Three points are in the tree: the root holds them all and has split, and
\* a leaf below the root's children holds one that was moved down by a split.
C21_Witness ==
    /\ treeStatus = "ok"
    /\ tree[1].totalMass = 3
    /\ \E c \in 1..Len(tree) :
          /\ IsLeaf(tree[c])
          /\ tree[c].totalMass = 1
          /\ Depth(tree, tree[c]) >= 2
          /\ tree[c].pointId = 0
          /\ tree[c].point # <<0, 0>>

\* ------------------------------------------------------------------------
\* Properties of BarnesHutRepulsion::computeRepulsive
\* ------------------------------------------------------------------------

\* p lies in the open interval of box b on both axes.
StrictlyInside(b, p) ==
    /\ SubHalving(b.center[1], b.halfW, b.halvings) < p[1]
    /\ p[1] < AddHalving(b.center[1], b.halfW, b.halvings)
    /\ SubHalving(b.center[2], b.halfH, b.halvings) < p[2]
    /\ p[2] < AddHalving(b.center[2], b.halfH, b.halvings)

\* The box computeRepulsive computes from the positions the step began with.
BoundsOfSnapshot == ComputeBounds(Snapshot)

\* The outcome of the insert loop of computeRepulsive on those positions.
BuiltOnSnapshot ==
    BuildTree([tree |-> <<NewQuadTree(BoundsOfSnapshot)>>, ok |-> TRUE,
               overflow |-> FALSE], Snapshot, 1)

\* Barnes-Hut repulsion has been called in the current step on a non-empty
\* node set.
BarnesHutCalled ==
    /\ strategy.kind = "BarnesHut"
    /\ Len(nodes) > 0
    /\ pc \in {"repulse", "crashed"}

\* C22 as stated: for every non-empty node set the box computed from the
\* positions contains every position strictly in its interior, every
\* insertion of computeRepulsive succeeds, and the tree built in the call has
\* root totalMass = |V|.
C22_TreeHoldsEveryNode ==
    BarnesHutCalled =>
      /\ \A i \in 1..Len(nodes) : StrictlyInside(BoundsOfSnapshot, pos0[i])
      /\ pc # "crashed"
      /\ ~BuiltOnSnapshot.overflow
      /\ BuiltOnSnapshot.tree[1].totalMass = Len(nodes)

\* ------------------------------------------------------------------------
\* Properties of the temperature
\* ------------------------------------------------------------------------

\* The vector v is no longer than r (exact while r * r fits the integers;
\* beyond that only through |v.x| + |v.y| <= r).
WithinDistance(v, r) ==
    \/ Abs(v[1]) + Abs(v[2]) <= r
    \/ /\ r <= 46340
       /\ Abs(v[1]) <= r
       /\ Abs(v[2]) <= r
       /\ v[1] * v[1] + v[2] * v[2] <= r * r

\* The current step began with every node inside the frame.
StartedInFrame == \A i \in 1..Len(nodes) : InFrame(pos0[i])

\* C23 as stated: in every step started with all node positions inside the
\* frame and T > 0, each node's position changes by a distance of at most
\* T_pre, the temperature before the step's cooling, however long its
\* accumulated displacement is; and a node whose accumulated displacement is
\* at most 1e-6 long does not move.
C23_MoveWithinTemperature ==
    (Returned /\ StartedInFrame /\ Tpre > 0) =>
      \A i \in 1..Len(nodes) :
         /\ WithinDistance(Move(i), Tpre)
         /\ DispLen(i) <= DispEps => nodes[i].position = pos0[i]

\* C23: in every step started with all node positions inside the frame and
\* T > 0, each node's position changes by a distance of at most T_pre up to
\* the rounding of the arithmetic, that is by less than T_pre plus one grid
\* point, however long its accumulated displacement is; and a node whose
\* accumulated displacement is at most 1e-6 long does not move.
C23_MoveWithinTemperatureRounded ==
    (Returned /\ StartedInFrame /\ Tpre > 0) =>
      \A i \in 1..Len(nodes) :
         /\ WithinDistance(Move(i), Tpre + 1)
         /\ DispLen(i) <= DispEps => nodes[i].position = pos0[i]

\* A completed step that cut a displacement longer than T_pre and moved the
\* node, inside the frame, by more than T_pre and less than T_pre plus one
\* grid point.
C23_Witness ==
    /\ Returned
    /\ StartedInFrame
    /\ Tpre > 0
    /\ \E i \in 1..Len(nodes) :
          /\ DispLen(i) > Tpre
          /\ InFrame(Unclamped(i))
          /\ ~WithinDistance(Move(i), Tpre)
          /\ WithinDistance(Move(i), Tpre + 1)

\* C24 as stated: kineticEnergy() is nonnegative in every reachable state:
\* after construction, after initialize, and after any sequence of
\* setTemperature, setCoolingRate, setRepulsiveStrategy and step calls.
C24_EnergyNonnegative == lastKineticEnergy >= 0

\* The cooling rate is in (0, 1).
Decaying == 0 < coolingRate /\ coolingRate < 100

\* C25 as stated: with a cooling rate alpha in (0, 1) and no setter calls in
\* between, repeated step() calls bring the temperature to exactly T_min
\* after finitely many steps, and the temperature equals T_min after every
\* later step.
C25_CoolsToFloor ==
    /\ Decaying => <>(Returned /\ T = TMin)
    /\ [][(Decaying /\ T = TMin) => T' = TMin]_vars

\* ------------------------------------------------------------------------
\* Properties of the displacement accumulators
\* ------------------------------------------------------------------------

\* The vector sum of all nodes' displacement accumulators.
TotalDisplacement ==
    VSum([i \in 1..Len(nodes) |-> nodes[i].displacement], 1, Len(nodes))

\* The step has run its repulsion and attraction phases under the BruteForce
\* strategy and has applied no displacement yet.
BruteForceAccumulated == pc = "attract" /\ strategy.kind = "BruteForce"

====
